---- MODULE Spec2Model ----
(***************************************************************************)
(* Model of the Bhoomi voice agent service (agent-service/):               *)
(*   - rag_tool.py : LoreTool.lookup_lore, the lore retrieval tool         *)
(*   - main.py     : the health check server thread and the session        *)
(*                   entrypoint                                            *)
(***************************************************************************)
EXTENDS Integers, Sequences, FiniteSets, TLC

(***************************************************************************)
(* Bounds of the model.                                                    *)
(***************************************************************************)
\* number of lookup_lore invocations that may be in flight together
MaxCalls == 2

\* number of jobs the worker hands to entrypoint
MaxJobs == 1
\* number of requests sent to the health check port
MaxProbes == 1

Calls == 1..MaxCalls
Jobs == 1..MaxJobs
Probes == 1..MaxProbes

(***************************************************************************)
(* rag_tool.py : constants of LoreTool                                     *)
(***************************************************************************)
\* rag_tool.py:10  default of INTERNAL_API_URL
DEFAULT_API_URL == "http://localhost:3000/api/internal/rag"
\* rag_tool.py:30  timeout=5.0
TIMEOUT == 5
\* rag_tool.py:32  response.status != 200
HTTP_OK == 200
\* rag_tool.py:14  spoiler_mode: str = "S1"
DEFAULT_SPOILER_MODE == "S1"

\* rag_tool.py:35, 41, 43, 47 : the texts lookup_lore returns
MSG_HAZY == "I cannot access the archives at this moment. My connection is hazy."
MSG_SILENT == "The archives are silent on this matter. I find no records matching your query."
MSG_MESH == "A disturbance in the Mesh prevents me from accessing the archives."
FOUND_PREFIX == "FOUND ARCHIVE RECORDS:\n"

\* the three tiers the docstring of lookup_lore names (rag_tool.py:20)
SpoilerTiers == {"S1", "S2", "S3"}

(***************************************************************************)
(* Inputs: what a caller may pass, what the environment may hold, what the *)
(* backend may do.                                                         *)
(***************************************************************************)
\* query: str
Queries == {"Who is the protagonist?"}
\* spoiler_mode: str -- the parameter is an unconstrained string; a caller
\* that passes it passes a tier or some other text
CallerModes == {"S3", "S4"}
\* INTERNAL_API_URL / INTERNAL_API_SECRET as the environment may set them
\* (an unset INTERNAL_API_URL gives the default, an unset secret gives None)
EnvConfigs ==
    { [url |-> DEFAULT_API_URL, secret |-> "None"],
      [url |-> "https://bharatvarsh.example/api/internal/rag", secret |-> "s3cret"] }
\* statuses the backend may answer with
Statuses == {HTTP_OK, 500}

\* JSON values of the "context" member, as Python sees them after json()
JStr(s) == [t |-> "str", s |-> s, n |-> 0]
JNum(n) == [t |-> "num", s |-> "", n |-> n]
JNull == [t |-> "null", s |-> "", n |-> 0]

\* What one read of the response body yields.
\*   kind "none"    : nothing read (yet)
\*   kind "text"    : response.text() returned `text`
\*   kind "object"  : response.json() returned a dict; `has` says whether it
\*                    holds the key "context", `context` its value
\*   kind "array"   : response.json() returned a JSON value that is no dict
\*   kind "invalid" : response.json() raised: the body is not JSON
\*   kind "broken"  : the connection failed while the body was being read
Body(kind, has, context, text) ==
    [kind |-> kind, has |-> has, context |-> context, text |-> text]
NoBody == Body("none", FALSE, JNull, "")
TextBody(txt) == Body("text", FALSE, JNull, txt)
ObjectBody(has, context) == Body("object", has, context, "")
ArrayBody == Body("array", FALSE, JNull, "")
InvalidBody == Body("invalid", FALSE, JNull, "")
BrokenBody == Body("broken", FALSE, JNull, "")

ErrorTexts == {"Internal Server Error"}
Contexts == {JStr("Ashen King died in Act 2"), JStr("The Mesh"), JStr(""), JNull}
JsonBodies ==
    {ObjectBody(TRUE, c) : c \in Contexts} \cup {ObjectBody(FALSE, JNull), ArrayBody}

\* the exceptions the request can raise inside the try block
EXC_NONE == "none"
ExceptionClasses ==
    { "ClientConnectorError",   \* session.post: connection failure
      "TimeoutError",           \* the timeout of the request fired
      "ClientPayloadError",     \* failure while reading the body
      "ContentTypeError",       \* response.json(): body is not JSON
      "AttributeError" }        \* data.get on a value that is no dict

(***************************************************************************)
(* State.                                                                  *)
(***************************************************************************)
VARIABLES
    api_url,      \* LoreTool.api_url
    api_secret,   \* LoreTool.api_secret
    pc,           \* pc[i]: where invocation i of lookup_lore stands
    args,         \* args[i]: the arguments of invocation i
    sent,         \* sent[i]: the outbound request of invocation i
    status,       \* status[i]: the status the backend answered with (0: none)
    body,         \* body[i]: what reading the response body yielded
    raised,       \* raised[i]: the exception raised inside the try block
    result,       \* result[i]: the text lookup_lore returned
    logged        \* logged[i]: the log records invocation i emitted

VARIABLES
    mainPc,       \* the main thread of main.py: "import", "loaded", "worker"
    health,       \* the health check thread: "unstarted", "started", "serving", "dead"
    probe,        \* probe[p]: a request to the health check port and its answer
    epc,          \* epc[j]: where the run of entrypoint for job j stands
    connected,    \* connected[j]: ctx.connect has completed
    connects,     \* connects[j]: calls of ctx.connect
    starts,       \* starts[j]: calls of session.start
    started,      \* started[j]: session.start has completed
    error,        \* error[j]: the exception that ended entrypoint
    elog          \* elog[j]: what entrypoint logged

toolVars == <<api_url, api_secret, pc, args, sent, status, body, raised, result, logged>>
healthVars == <<health, probe>>
sessionVars == <<epc, connected, connects, starts, started, error, elog>>
procVars == <<mainPc, healthVars, sessionVars>>
vars == <<toolVars, procVars>>

NoArgs == [query |-> "", spoiler_mode |-> "", defaulted |-> FALSE]
NoRequest ==
    [url |-> "", query |-> "", spoilerMode |-> "", authorization |-> "", timeout |-> 0]

LogRecord(level, msg, st, detail) ==
    [level |-> level, msg |-> msg, status |-> st, detail |-> detail]

(***************************************************************************)
(* rag_tool.py : LoreTool                                                  *)
(***************************************************************************)
\* faulty variant: `if context is None`
TruthyNotNone(v) == v.t # "null"

\* Python truthiness of a JSON value: `if not context`
Truthy(v) ==
    CASE v.t = "str" -> v.s # ""
      [] v.t = "num" -> v.n # 0
      [] OTHER -> FALSE

\* str(v), as the f-string renders it
PyStr(v) ==
    CASE v.t = "str" -> v.s
      [] v.t = "num" -> ToString(v.n)
      [] OTHER -> "None"

\* data.get("context", "")
GetContext(data) == IF data.has THEN data.context ELSE JStr("")

\* faulty variant: f"FOUND ARCHIVE RECORDS: {context.strip()}", the newline lost
FoundRecordsOneLine(context) == "FOUND ARCHIVE RECORDS: " \o PyStr(context)

\* f"FOUND ARCHIVE RECORDS:\n{context}"
FoundRecords(context) == FOUND_PREFIX \o PyStr(context)

\* faulty variant: response.status > 500
IsErrorStatusAbove(s) == s > 500

\* response.status != 200
IsErrorStatus(s) == s # HTTP_OK

\* faulty variant: except aiohttp.ClientError
CaughtClientError(exc) ==
    exc \in {"ClientConnectorError", "ClientPayloadError", "ContentTypeError"}

\* except Exception: every exception of the try block derives from Exception
Caught(exc) == exc \in ExceptionClasses

\* faulty variant: the request is posted without timeout=
PostRequestNoTimeout(url, secret, query, spoiler_mode) ==
    [url |-> url, query |-> query, spoilerMode |-> spoiler_mode,
     authorization |-> "Bearer " \o secret, timeout |-> 0]

\* session.post(self.api_url, json={...}, headers={...}, timeout=5.0)
PostRequest(url, secret, query, spoiler_mode) ==
    [url |-> url, query |-> query, spoilerMode |-> spoiler_mode,
     authorization |-> "Bearer " \o secret, timeout |-> TIMEOUT]

\* the return path of lines 37-43, for a body json() returned as a dict
ContextResult(data) ==
    IF ~Truthy(GetContext(data)) THEN MSG_SILENT ELSE FoundRecords(GetContext(data))

Awaiting(i) == pc[i] \in {"post", "text", "json"}

\* An exception raised inside the try block: the handler of lines 45-47 logs
\* it and returns the fixed text; one it does not catch leaves lookup_lore.
Raise(i, exc) ==
    /\ raised' = [raised EXCEPT ![i] = exc]
    /\ IF Caught(exc)
       THEN /\ logged' = [logged EXCEPT ![i] =
                    Append(@, LogRecord("ERROR", "Failed to query RAG API", 0, exc))]
            /\ result' = [result EXCEPT ![i] = MSG_MESH]
            /\ pc' = [pc EXCEPT ![i] = "done"]
       ELSE /\ UNCHANGED <<logged, result>>
            /\ pc' = [pc EXCEPT ![i] = "raised"]

\* faulty variant: the call keeps the tier in the url of the tool, for the next call
LookupLoreKeepsTier(i, query, mode, omitted) ==
    /\ pc[i] = "idle"
    /\ LET spoiler_mode == IF omitted THEN DEFAULT_SPOILER_MODE ELSE mode IN
       /\ args' = [args EXCEPT ![i] =
               [query |-> query, spoiler_mode |-> spoiler_mode, defaulted |-> omitted]]
       /\ logged' = [logged EXCEPT ![i] =
               Append(@, LogRecord("INFO", "Looking up lore", 0, spoiler_mode))]
       /\ api_url' = DEFAULT_API_URL \o "?tier=" \o spoiler_mode
       /\ sent' = [sent EXCEPT ![i] = PostRequest(api_url', api_secret, query, spoiler_mode)]
    /\ pc' = [pc EXCEPT ![i] = "post"]
    /\ UNCHANGED <<api_secret, status, body, raised, result>>
    /\ UNCHANGED procVars

\* lookup_lore is called: line 22 logs, lines 25-31 issue the request.
\* `omitted` is the call that passes only query.
LookupLore(i, query, mode, omitted) ==
    /\ pc[i] = "idle"
    /\ LET spoiler_mode == IF omitted THEN DEFAULT_SPOILER_MODE ELSE mode IN
       /\ args' = [args EXCEPT ![i] =
               [query |-> query, spoiler_mode |-> spoiler_mode, defaulted |-> omitted]]
       /\ logged' = [logged EXCEPT ![i] =
               Append(@, LogRecord("INFO", "Looking up lore", 0, spoiler_mode))]
       /\ sent' = [sent EXCEPT ![i] = PostRequest(api_url, api_secret, query, spoiler_mode)]
    /\ pc' = [pc EXCEPT ![i] = "post"]
    /\ UNCHANGED <<api_url, api_secret, status, body, raised, result>>
    /\ UNCHANGED procVars

\* session.post fails to connect
PostFails(i) ==
    /\ pc[i] = "post"
    /\ Raise(i, "ClientConnectorError")
    /\ UNCHANGED <<api_url, api_secret, args, sent, status, body>>
    /\ UNCHANGED procVars

\* the backend answers with status s: line 32 picks the branch
PostResponds(i, s) ==
    /\ pc[i] = "post"
    /\ status' = [status EXCEPT ![i] = s]
    /\ pc' = [pc EXCEPT ![i] = IF IsErrorStatus(s) THEN "text" ELSE "json"]
    /\ UNCHANGED <<api_url, api_secret, args, sent, body, raised, result, logged>>
    /\ UNCHANGED procVars

\* lines 33-35: the error body is read, logged with the status, and the
\* fixed text is returned
TextRead(i, txt) ==
    /\ pc[i] = "text"
    /\ body' = [body EXCEPT ![i] = TextBody(txt)]
    /\ logged' = [logged EXCEPT ![i] =
            Append(@, LogRecord("ERROR", "RAG API Error", status[i], txt))]
    /\ result' = [result EXCEPT ![i] = MSG_HAZY]
    /\ pc' = [pc EXCEPT ![i] = "done"]
    /\ UNCHANGED <<api_url, api_secret, args, sent, status, raised>>
    /\ UNCHANGED procVars

\* line 33: response.text() fails while reading the body
TextFails(i) ==
    /\ pc[i] = "text"
    /\ body' = [body EXCEPT ![i] = BrokenBody]
    /\ Raise(i, "ClientPayloadError")
    /\ UNCHANGED <<api_url, api_secret, args, sent, status>>
    /\ UNCHANGED procVars

\* lines 37-43: response.json() returns data
JsonRead(i, data) ==
    /\ pc[i] = "json"
    /\ body' = [body EXCEPT ![i] = data]
    /\ IF data.kind = "object"
       THEN /\ result' = [result EXCEPT ![i] = ContextResult(data)]
            /\ pc' = [pc EXCEPT ![i] = "done"]
            /\ UNCHANGED <<raised, logged>>
       ELSE Raise(i, "AttributeError")
    /\ UNCHANGED <<api_url, api_secret, args, sent, status>>
    /\ UNCHANGED procVars

\* line 37: response.json() raises, the body is not JSON
JsonInvalid(i) ==
    /\ pc[i] = "json"
    /\ body' = [body EXCEPT ![i] = InvalidBody]
    /\ Raise(i, "ContentTypeError")
    /\ UNCHANGED <<api_url, api_secret, args, sent, status>>
    /\ UNCHANGED procVars

\* line 37: response.json() fails while reading the body
JsonFails(i) ==
    /\ pc[i] = "json"
    /\ body' = [body EXCEPT ![i] = BrokenBody]
    /\ Raise(i, "ClientPayloadError")
    /\ UNCHANGED <<api_url, api_secret, args, sent, status>>
    /\ UNCHANGED procVars

\* line 30: the timeout of the request fires while the invocation waits
TimeoutFires(i) ==
    /\ Awaiting(i)
    /\ sent[i].timeout > 0
    /\ Raise(i, "TimeoutError")
    /\ UNCHANGED <<api_url, api_secret, args, sent, status, body>>
    /\ UNCHANGED procVars

(***************************************************************************)
(* main.py : the health check server                                       *)
(***************************************************************************)
Methods == {"GET", "HEAD", "POST"}
Paths == {"/", "/healthz"}

Response(st, ctype, content) == [status |-> st, ctype |-> ctype, body |-> content]
NoResponse == Response(0, "", "")
NoProbe ==
    [state |-> "none", method |-> "", path |-> "", at |-> <<"", "">>,
     response |-> NoResponse, during |-> ""]

\* the methods HealthHandler defines a do_<METHOD> for (lines 25-29)
HandlerMethods == {"GET"}

\* faulty variant: do_GET answers 200 and never writes the body
do_GET_NoBody == Response(200, "text/plain", "")

\* HealthHandler.do_GET (lines 25-29); the path is not looked at
do_GET == Response(200, "text/plain", "OK")

\* BaseHTTPRequestHandler answers a method its subclass defines no do_<METHOD>
\* for with send_error(501)
HandleOneRequest(method) ==
    IF method \in HandlerMethods
    THEN do_GET
    ELSE Response(501, "text/html;charset=utf-8", "Unsupported method")

\* lines 40-41: threading.Thread(target=start_health_server, daemon=True).start()
StartHealthThread ==
    /\ mainPc = "import"
    /\ mainPc' = "loaded"
    /\ health' = "started"
    /\ UNCHANGED <<probe, sessionVars, toolVars>>

\* start_health_server, lines 34-37: HTTPServer(...) binds the port and
\* listens, serve_forever() serves it
ServerBinds ==
    /\ health = "started"
    /\ health' = "serving"
    /\ UNCHANGED <<mainPc, probe, sessionVars, toolVars>>

\* start_health_server, lines 34-35: int(PORT) or the bind raises (a port
\* that is taken, a PORT that is no number); the thread ends with the error
ServerBindFails ==
    /\ health = "started"
    /\ health' = "dead"
    /\ UNCHANGED <<mainPc, probe, sessionVars, toolVars>>

\* probes arrive in the order of their numbers
NextProbe(p) ==
    /\ probe[p].state = "none"
    /\ \A q \in Probes : q < p => probe[q].state # "none"

\* a request arrives while the server listens: it waits to be served
ProbeArrives(p, method, path) ==
    /\ NextProbe(p)
    /\ health = "serving"
    /\ probe' = [probe EXCEPT ![p] =
            [NoProbe EXCEPT !.state = "pending", !.method = method, !.path = path]]
    /\ UNCHANGED <<mainPc, health, sessionVars, toolVars>>

\* a probe tries to connect while nothing listens on the port: the
\* connection is refused and no request is ever sent
ProbeRefused(p) ==
    /\ NextProbe(p)
    /\ health # "serving"
    /\ probe' = [probe EXCEPT ![p] =
            [NoProbe EXCEPT !.state = "refused", !.at = <<mainPc, health>>]]
    /\ UNCHANGED <<mainPc, health, sessionVars, toolVars>>

\* what the runs of entrypoint are doing: one has failed, one is waiting on
\* an await, or none is (recorded with each answer)
SessionFlow ==
    IF \E j \in Jobs : epc[j] = "failed" THEN "failed"
    ELSE IF \E j \in Jobs : epc[j] \in {"connect", "start", "sleep"} THEN "awaiting"
    ELSE "idle"

\* faulty variant: the health check is served from the loop the sessions run on,
\* which serves nothing while an entrypoint is awaited
HandleProbeOnLoop(p) ==
    /\ health = "serving"
    /\ probe[p].state = "pending"
    /\ \A j \in Jobs : epc[j] \notin {"connect", "start", "sleep"}
    /\ probe' = [probe EXCEPT ![p] =
            [@ EXCEPT !.state = "answered",
                      !.response = HandleOneRequest(probe[p].method),
                      !.during = SessionFlow]]
    /\ UNCHANGED <<mainPc, health, sessionVars, toolVars>>

\* serve_forever (line 37) takes the request and HealthHandler answers it, in
\* the health check thread
HandleProbe(p) ==
    /\ health = "serving"
    /\ probe[p].state = "pending"
    /\ probe' = [probe EXCEPT ![p] =
            [@ EXCEPT !.state = "answered",
                      !.response = HandleOneRequest(probe[p].method),
                      !.during = SessionFlow]]
    /\ UNCHANGED <<mainPc, health, sessionVars, toolVars>>

(***************************************************************************)
(* main.py : the worker and entrypoint                                     *)
(***************************************************************************)
LOG_STARTING == "Starting Agent Session..."
LOG_LISTENING == "Agent connected and listening."

\* lines 96-97: cli.run_app(WorkerOptions(entrypoint_fnc=entrypoint))
RunApp ==
    /\ mainPc = "loaded"
    /\ mainPc' = "worker"
    /\ UNCHANGED <<healthVars, sessionVars, toolVars>>

\* the worker runs entrypoint for a job: line 70 calls ctx.connect
JobAssigned(j) ==
    /\ mainPc = "worker"
    /\ epc[j] = "none"
    /\ epc' = [epc EXCEPT ![j] = "connect"]
    /\ connects' = [connects EXCEPT ![j] = @ + 1]
    /\ UNCHANGED <<mainPc, healthVars, connected, starts, started, error, elog, toolVars>>

\* line 70 completes; lines 73-90 build the tool, the agent and the session,
\* log, and call session.start
ConnectCompletes(j) ==
    /\ epc[j] = "connect"
    /\ connected' = [connected EXCEPT ![j] = TRUE]
    /\ elog' = [elog EXCEPT ![j] = Append(@, LOG_STARTING)]
    /\ starts' = [starts EXCEPT ![j] = @ + 1]
    /\ epc' = [epc EXCEPT ![j] = "start"]
    /\ UNCHANGED <<mainPc, healthVars, connects, started, error, toolVars>>

\* faulty variant: a failed connect is caught and logged, and entrypoint goes on
ConnectFailsCaught(j) ==
    /\ epc[j] = "connect"
    /\ elog' = [elog EXCEPT ![j] = Append(@, LOG_STARTING)]
    /\ starts' = [starts EXCEPT ![j] = @ + 1]
    /\ epc' = [epc EXCEPT ![j] = "start"]
    /\ UNCHANGED <<mainPc, healthVars, connected, connects, started, error, toolVars>>

\* line 70 raises: nothing catches it, entrypoint ends with the error
ConnectFails(j) ==
    /\ epc[j] = "connect"
    /\ error' = [error EXCEPT ![j] = "connect"]
    /\ epc' = [epc EXCEPT ![j] = "failed"]
    /\ UNCHANGED <<mainPc, healthVars, connected, connects, starts, started, elog, toolVars>>

\* line 70 completes and lines 73-85 raise (the VAD or the model cannot be
\* built): entrypoint ends with the error before the session is started
AgentBuildFails(j) ==
    /\ epc[j] = "connect"
    /\ connected' = [connected EXCEPT ![j] = TRUE]
    /\ error' = [error EXCEPT ![j] = "build"]
    /\ epc' = [epc EXCEPT ![j] = "failed"]
    /\ UNCHANGED <<mainPc, healthVars, connects, starts, started, elog, toolVars>>

\* line 90 completes; line 93 sleeps
StartCompletes(j) ==
    /\ epc[j] = "start"
    /\ started' = [started EXCEPT ![j] = TRUE]
    /\ epc' = [epc EXCEPT ![j] = "sleep"]
    /\ UNCHANGED <<mainPc, healthVars, connected, connects, starts, error, elog, toolVars>>

\* line 90 raises: nothing catches it, entrypoint ends with the error
StartFails(j) ==
    /\ epc[j] = "start"
    /\ error' = [error EXCEPT ![j] = "start"]
    /\ epc' = [epc EXCEPT ![j] = "failed"]
    /\ UNCHANGED <<mainPc, healthVars, connected, connects, starts, started, elog, toolVars>>

\* line 93 completes; line 94 logs and entrypoint returns
SleepDone(j) ==
    /\ epc[j] = "sleep"
    /\ elog' = [elog EXCEPT ![j] = Append(@, LOG_LISTENING)]
    /\ epc' = [epc EXCEPT ![j] = "returned"]
    /\ UNCHANGED <<mainPc, healthVars, connected, connects, starts, started, error, toolVars>>

\* main.py is being imported: nothing has run beyond line 39
InitProc ==
    /\ mainPc = "import"
    /\ health = "unstarted"
    /\ probe = [p \in Probes |-> NoProbe]
    /\ epc = [j \in Jobs |-> "none"]
    /\ connected = [j \in Jobs |-> FALSE]
    /\ connects = [j \in Jobs |-> 0]
    /\ starts = [j \in Jobs |-> 0]
    /\ started = [j \in Jobs |-> FALSE]
    /\ error = [j \in Jobs |-> "none"]
    /\ elog = [j \in Jobs |-> <<>>]

\* LoreTool.__init__ (lines 9-11) has run: the environment fixed url and secret
InitTool ==
    /\ \E env \in EnvConfigs :
          /\ api_url = env.url
          /\ api_secret = env.secret
    /\ pc = [i \in Calls |-> "idle"]
    /\ args = [i \in Calls |-> NoArgs]
    /\ sent = [i \in Calls |-> NoRequest]
    /\ status = [i \in Calls |-> 0]
    /\ body = [i \in Calls |-> NoBody]
    /\ raised = [i \in Calls |-> EXC_NONE]
    /\ result = [i \in Calls |-> ""]
    /\ logged = [i \in Calls |-> <<>>]

Init == InitTool /\ InitProc

Next ==
    \/ \E i \in Calls, q \in Queries, m \in CallerModes : LookupLore(i, q, m, FALSE)
    \/ \E i \in Calls, q \in Queries : LookupLore(i, q, DEFAULT_SPOILER_MODE, TRUE)
    \/ \E i \in Calls : PostFails(i)
    \/ \E i \in Calls, s \in Statuses : PostResponds(i, s)
    \/ \E i \in Calls, t \in ErrorTexts : TextRead(i, t)
    \/ \E i \in Calls : TextFails(i)
    \/ \E i \in Calls, d \in JsonBodies : JsonRead(i, d)
    \/ \E i \in Calls : JsonInvalid(i)
    \/ \E i \in Calls : JsonFails(i)
    \/ \E i \in Calls : TimeoutFires(i)

Spec == Init /\ [][Next]_vars

ProcNext ==
    \/ StartHealthThread
    \/ ServerBinds
    \/ ServerBindFails
    \/ \E p \in Probes, m \in Methods, path \in Paths : ProbeArrives(p, m, path)
    \/ \E p \in Probes : ProbeRefused(p)
    \/ \E p \in Probes : HandleProbe(p)
    \/ RunApp
    \/ \E j \in Jobs : JobAssigned(j)
    \/ \E j \in Jobs : ConnectCompletes(j)
    \/ \E j \in Jobs : ConnectFails(j)
    \/ \E j \in Jobs : AgentBuildFails(j)
    \/ \E j \in Jobs : StartCompletes(j)
    \/ \E j \in Jobs : StartFails(j)
    \/ \E j \in Jobs : SleepDone(j)

\* the process as it starts, with INTERNAL_API_URL and the secret unset
ProcInit == Init /\ api_url = DEFAULT_API_URL

ProcSpec == ProcInit /\ [][ProcNext]_vars

\* the health check thread is scheduled beside the main thread: once it
\* serves, a request that waits is taken
FairProcSpec == ProcSpec /\ \A p \in Probes : WF_vars(HandleProbe(p))

\* the backend leaves every request unanswered until its timeout fires; the
\* timer of the request is the one step the event loop is sure to take
FairInit == Init /\ api_url = DEFAULT_API_URL

FairSpec == FairInit /\ [][Next]_vars /\ \A i \in Calls : WF_vars(TimeoutFires(i))

(***************************************************************************)
(* Properties of lookup_lore.                                              *)
(***************************************************************************)
Done(i) == pc[i] = "done"
LastLog(i) == logged[i][Len(logged[i])]
Answered(i) == status[i] # 0

\* C1: lookup_lore never lets an exception reach its caller; whatever the
\* backend does, it returns "FOUND ARCHIVE RECORDS:\n" plus the context or
\* one of the three fixed texts.
C1_NeverPropagates ==
    \A i \in Calls :
        /\ pc[i] # "raised"
        /\ Done(i) =>
            \/ result[i] \in {MSG_SILENT, MSG_HAZY, MSG_MESH}
            \/ /\ body[i].kind = "object"
               /\ body[i].has
               /\ body[i].context.t = "str"
               /\ result[i] = "FOUND ARCHIVE RECORDS:\n" \o body[i].context.s

\* C1 witness: a body that is JSON but no object, and a read that broke, both
\* ended as a returned text
C1_Witness ==
    \E i, j \in Calls :
        /\ Done(i) /\ raised[i] = "AttributeError" /\ body[i].kind = "array"
        /\ Done(j) /\ raised[j] = "ClientPayloadError"

\* C2 as stated: every answer with a status other than 200 ends in the
\* "cannot access the archives" text, logged with status and body.
C2_Non200AlwaysHazy ==
    \A i \in Calls :
        (Done(i) /\ Answered(i) /\ status[i] # 200) =>
            /\ result[i] = MSG_HAZY
            /\ LastLog(i) = LogRecord("ERROR", "RAG API Error", status[i], body[i].text)

\* C2 amended: with a status other than 200, the result is the "cannot access
\* the archives" text, logged with status and body, when the body was read;
\* when reading the body failed or timed out it is the "disturbance" text.
C2_Non200HazyWhenBodyRead ==
    \A i \in Calls :
        (Done(i) /\ Answered(i) /\ status[i] # 200) =>
            IF body[i].kind = "text"
            THEN /\ result[i] = MSG_HAZY
                 /\ LastLog(i) = LogRecord("ERROR", "RAG API Error", status[i], body[i].text)
            ELSE /\ raised[i] \in {"ClientPayloadError", "TimeoutError"}
                 /\ result[i] = MSG_MESH

\* C2 witness: a 500 whose body was read
C2_Witness ==
    \E i \in Calls : Done(i) /\ status[i] = 500 /\ body[i].kind = "text"

\* C4: the spoilerMode of every outbound request is S1, S2 or S3, and S1 when
\* the caller passed only query.
C4_SpoilerModeInTiers ==
    \A i \in Calls :
        pc[i] # "idle" =>
            /\ sent[i].spoilerMode \in {"S1", "S2", "S3"}
            /\ args[i].defaulted => sent[i].spoilerMode = "S1"

\* C5: a 200 whose body has an empty context, or none, gives the "archives
\* are silent" text.
C5_EmptyContextSilent ==
    \A i \in Calls :
        ( /\ Done(i)
          /\ status[i] = 200
          /\ body[i].kind = "object"
          /\ \/ ~body[i].has
             \/ body[i].context \in {JStr(""), JNull} ) =>
            result[i] = MSG_SILENT

\* C5 witness: both a body without the key and one with "" were answered
C5_Witness ==
    \E i, j \in Calls :
        /\ Done(i) /\ status[i] = 200 /\ body[i].kind = "object" /\ ~body[i].has
        /\ Done(j) /\ status[j] = 200 /\ body[j].kind = "object" /\ body[j].has
        /\ body[j].context = JStr("")

\* C6: a 200 with a non-empty context c gives "FOUND ARCHIVE RECORDS:", a
\* newline, and c unchanged.
C6_FoundRecords ==
    \A i \in Calls :
        ( /\ Done(i)
          /\ status[i] = 200
          /\ body[i].kind = "object"
          /\ body[i].has
          /\ body[i].context.t = "str"
          /\ body[i].context.s # "" ) =>
            /\ result[i] = "FOUND ARCHIVE RECORDS:" \o "\n" \o body[i].context.s
            /\ Len(result[i]) = 23 + Len(body[i].context.s)

\* C6 witness: two different contexts were returned
C6_Witness ==
    \E i, j \in Calls :
        /\ Done(i) /\ status[i] = 200
        /\ body[i] = ObjectBody(TRUE, JStr("Ashen King died in Act 2"))
        /\ Done(j) /\ status[j] = 200
        /\ body[j] = ObjectBody(TRUE, JStr("The Mesh"))

\* C7: every invocation that waits for the backend returns; when the timeout
\* fired or the connection failed, what it returns is the "disturbance" text,
\* and the exception is logged.
C7_EventuallyReturns ==
    /\ \A i \in Calls : Awaiting(i) ~> Done(i)
    /\ [](\A i \in Calls :
            raised[i] \in {"TimeoutError", "ClientConnectorError"} =>
                /\ Done(i)
                /\ result[i] = MSG_MESH
                /\ LastLog(i) = LogRecord("ERROR", "Failed to query RAG API", 0, raised[i]))

\* C7 witness: the timeout fired before the backend answered
C7_Witness ==
    \E i \in Calls : Done(i) /\ raised[i] = "TimeoutError" /\ ~Answered(i)

\* what the backend did to the request of invocation i
BackendAnswer(i) ==
    <<status[i], body[i], raised[i] \in {"TimeoutError", "ClientConnectorError"}, raised[i]>>

\* C8: the result depends only on the arguments and on the backend's answer
\* to the invocation's own request, whatever other invocations do meanwhile;
\* no invocation changes api_url or api_secret.
C8_Independent ==
    /\ [](\A i, j \in Calls :
            (Done(i) /\ Done(j) /\ args[i] = args[j]) =>
                /\ sent[i] = sent[j]
                /\ BackendAnswer(i) = BackendAnswer(j) => result[i] = result[j])
    /\ [](\A i \in Calls :
            pc[i] # "idle" =>
                /\ sent[i].url = api_url
                /\ sent[i].authorization = "Bearer " \o api_secret)
    /\ [][api_url' = api_url /\ api_secret' = api_secret]_vars

\* C8 witness: two identical calls got the same answer while in flight together
C8_Witness ==
    \E i, j \in Calls :
        /\ i # j
        /\ Done(i) /\ Done(j)
        /\ args[i] = args[j]
        /\ BackendAnswer(i) = BackendAnswer(j)
        /\ status[i] = 200

(***************************************************************************)
(* Properties of the health check server and of entrypoint.               *)
(***************************************************************************)
OK_RESPONSE == Response(200, "text/plain", "OK")
Answered200(p) == probe[p].state = "answered" /\ probe[p].response = OK_RESPONSE

\* C3 as stated: every request the endpoint answers, whatever its method and
\* path, gets 200, text/plain, "OK".
C3_EveryMethodOk ==
    \A p \in Probes : probe[p].state = "answered" => probe[p].response = OK_RESPONSE

\* C3 amended: every GET request, whatever its path, gets 200, text/plain,
\* "OK"; a request of any other method gets 501.
C3_GetOkOthers501 ==
    \A p \in Probes :
        probe[p].state = "answered" =>
            IF probe[p].method = "GET"
            THEN probe[p].response = OK_RESPONSE
            ELSE probe[p].response.status = 501

\* C3 witness: a GET of a path other than / was answered
C3_Witness ==
    \E p \in Probes :
        /\ probe[p].state = "answered"
        /\ probe[p].method = "GET"
        /\ probe[p].path = "/healthz"

\* C9 as stated: the health check thread is started before the worker runs,
\* and no probe sent once the worker runs goes unanswered.
C9_NoProbeRefusedOnceWorkerRuns ==
    /\ mainPc = "worker" => health # "unstarted"
    /\ \A p \in Probes : probe[p].state = "refused" => probe[p].at[1] # "worker"

\* C9 amended: the health check thread is started before the worker runs;
\* once its server listens, every GET probe is in the end answered with 200
\* "OK" whatever entrypoint does or fails to do; no step changes the state
\* of both.
C9_ServedWhateverTheSession ==
    /\ [](mainPc = "worker" => health # "unstarted")
    /\ \A p \in Probes :
          (probe[p].state = "pending" /\ probe[p].method = "GET") ~> Answered200(p)
    /\ [][sessionVars' # sessionVars => healthVars' = healthVars]_vars

\* C9 witness: a probe was answered while a run of entrypoint was waiting
C9_Witness ==
    \E p \in Probes : Answered200(p) /\ probe[p].during = "awaiting"

Logged(j, msg) == \E k \in 1..Len(elog[j]) : elog[j][k] = msg

\* C10: in a run of entrypoint the session is started only on a connected
\* room; connect and start are each tried at most once; a failure of either
\* ends entrypoint with the error; "Agent connected and listening." is logged
\* only once the session has started.
C10_ConnectThenStartOnce ==
    /\ [](\A j \in Jobs :
            /\ connects[j] <= 1
            /\ starts[j] <= 1
            /\ starts[j] > 0 => connected[j]
            /\ started[j] => starts[j] = 1
            /\ Logged(j, LOG_LISTENING) => started[j]
            /\ error[j] # "none" => epc[j] = "failed"
            /\ error[j] = "connect" => (~connected[j] /\ starts[j] = 0)
            /\ error[j] = "start" => (~started[j] /\ ~Logged(j, LOG_LISTENING)))
    /\ [][\A j \in Jobs :
            epc[j] = "failed" =>
                /\ epc'[j] = "failed"
                /\ connects'[j] = connects[j]
                /\ starts'[j] = starts[j]
                /\ elog'[j] = elog[j]]_vars

\* C10 witness: the room was connected, session.start failed and ended the run
C10_Witness ==
    \E j \in Jobs :
        /\ epc[j] = "failed" /\ error[j] = "start"
        /\ connected[j] /\ connects[j] = 1 /\ starts[j] = 1

====
